---- MODULE Spec2Model ----
(***************************************************************************)
(* ThreadPool (src/Threadpool.hpp): a fixed set of worker threads serving  *)
(* one priority queue guarded by one mutex and one condition variable, a   *)
(* per-thread recursion counter that switches addTask to inline execution, *)
(* and waitForTask, which helps to drain the queue while it waits.         *)
(*                                                                         *)
(* Every thread is a call stack of frames [fn, pc, t, hs]: fn the function *)
(* (main, workerLoop, tryToWork, addTask, waitForTask, action), pc the     *)
(* place in it, t the task (or future) the call is about, hs the futures   *)
(* client code holds.  One action of the model is one step of the frame on *)
(* top of one thread's stack.  Steps that touch only the thread's own      *)
(* state are taken together with the shared access before them; every     *)
(* read of stop, every critical section, every cv.wait and every use of a  *)
(* packaged task is a step of its own.                                     *)
(*                                                                         *)
(* The client code (what the main thread and the actions do with the pool) *)
(* is a bounded nondeterministic workload over the public operations.      *)
(*                                                                         *)
(* The wrapper stored in the queue refers to addTask's local pFunc (line   *)
(* 64).  tasks[t].pFunc tells whether that local is alive; calling the     *)
(* wrapper once it is gone is undefined and is modelled by the outcomes a  *)
(* build can show: the process is terminated (crashed), or the action runs *)
(* from the stale object and its outcome reaches no future.  The reads and *)
(* writes of the volatile stop flag are taken as single memory accesses.   *)
(***************************************************************************)
EXTENDS Integers, Sequences, FiniteSets, TLC

\* ------------------------------------------------------------- bounds
MaxWorkers == 2      \* largest worker count given to the constructor
MaxTasks == 2        \* addTask calls made by the workload
MaxPrio == 2         \* priorities are 1..MaxPrio
MaxDepth == 2        \* largest maxRecursionDepth given to the constructor

Main == 0            \* the thread that constructs and destroys the pool
NoThread == -1
NeverFut == 0        \* a future of the client's own that is never made ready
Workers == 1..MaxWorkers
Threads == {Main} \cup Workers
TaskIds == 1..MaxTasks
Prios == 1..MaxPrio

VARIABLES
    stop,          \* volatile bool stop
    taskQueue,     \* taskFrame.taskQueue: the ids of the resident entries
    mtx,           \* taskFrame.mtx: the holder, or NoThread
    cvWaiters,     \* threads blocked in cv.wait and not yet notified
    RecursionMap,  \* RecursionMap
    threadNumber,  \* threadNumber
    maxRecursion,  \* maxRecursion
    tasks,         \* per addTask call: its arguments, wrapper and future
    nTasks,        \* addTask calls made so far
    stack,         \* per thread: its call stack, innermost frame last
    ret,           \* per thread: how the action that just ended left ("val", "exc")
    crashed,       \* the process was terminated by undefined behaviour
    atStop,        \* history: the entries resident when stop was set
    coRes          \* history: pairs of entries that were resident together

vars == <<stop, taskQueue, mtx, cvWaiters, RecursionMap, threadNumber,
          maxRecursion, tasks, nTasks, stack, ret, crashed, atStop, coRes>>

\* ------------------------------------------------------------ helpers
NoTask == [priority |-> 0, st |-> "none", fut |-> "none",
           pFunc |-> FALSE, inl |-> FALSE]
Frame(fn, pc, t) == [fn |-> fn, pc |-> pc, t |-> t, hs |-> <<>>]

Depth(self) == Len(stack[self])
Top(self) == stack[self][Depth(self)]
At(self, fn, pc) ==
    /\ ~crashed
    /\ Depth(self) > 0
    /\ Top(self).fn = fn
    /\ Top(self).pc = pc

\* stack operations on the innermost frame
SetTop(self, f) == [stack EXCEPT ![self][Depth(self)] = f]
Goto(self, pc) == SetTop(self, [Top(self) EXCEPT !.pc = pc])
Call(self, pc, callee) == Append(Goto(self, pc)[self], callee)
Front(stk) == SubSeq(stk, 1, Len(stk) - 1)
Last(stk) == stk[Len(stk)]

Val(t) == 100 + t    \* the value task t's action produces
Sentinel == 0        \* static_cast<T>(NULL)

\* mutant of comparePriority: the comparison turned round (a min-heap)
comparePriorityReversed(p1, p2) == p1 > p2

\* comparePriority: p1 is below p2
comparePriority(p1, p2) == p1 < p2

\* mutant of TopEntries: the entry taken is any resident entry
TopEntriesAny(q) == q

\* priority_queue::top(): an entry no other entry is above
TopEntries(q) ==
    {t \in q : \A u \in q : ~comparePriority(tasks[t].priority, tasks[u].priority)}

\* fut.wait_for(0) == ready
Ready(h) == h # NeverFut /\ tasks[h].fut \in {"value", "exception", "broken"}

\* fut.get()
Get(h) ==
    CASE tasks[h].fut = "value" -> [k |-> "val", v |-> Val(h)]
      [] tasks[h].fut = "exception" -> [k |-> "exc", v |-> h]
      [] OTHER -> [k |-> "exc", v |-> -1]     \* future_error: broken_promise

\* ----------------------------------------------------------- Init
Init ==
    /\ stop = FALSE
    /\ taskQueue = {}
    /\ mtx = NoThread
    /\ cvWaiters = {}
    /\ threadNumber \in 1..MaxWorkers
    /\ maxRecursion \in 1..MaxDepth
    /\ RecursionMap = [th \in Threads |-> 0]
    /\ tasks = [t \in TaskIds |-> NoTask]
    /\ nTasks = 0
    /\ stack = [th \in Threads |->
                 IF th = Main THEN <<Frame("main", "body", 0)>>
                 ELSE IF th <= threadNumber THEN <<Frame("workerLoop", "while", 0)>>
                 ELSE <<>>]
    /\ ret = [th \in Threads |-> "none"]
    /\ crashed = FALSE
    /\ atStop = {}
    /\ coRes = {}

\* ------------------------------------------- returns and failures
\* What a thread does, without touching shared state, when a call hands result r
\* to the frame on top of stk:
\*  - tryToWork (line 123): the packaged task takes the action's outcome; that
\*    store is the step TW_Store;
\*  - addTask (lines 84-86): a value completes the promise and the future is
\*    returned; a failure leaves addTask with the promise unset;
\*  - client code: a failure ends an action and is caught by the main thread, a
\*    future is kept, an action that awaited NeverFut returns once that wait
\*    is over.
RECURSIVE Deliver(_, _, _)
Deliver(stk, tsk, r) ==
    LET f == Last(stk) IN
    IF f.fn = "tryToWork"
    THEN [stk |-> stk, tsk |-> tsk, ret |-> r.k]
    ELSE IF f.fn = "addTask"
    THEN IF r.k = "exc"
         THEN Deliver(Front(stk), [tsk EXCEPT ![f.t].st = "raised"], r)
         ELSE Deliver(Front(stk),
                      [tsk EXCEPT ![f.t].st = "returned", ![f.t].fut = "value"],
                      [k |-> "fut", v |-> f.t])
    ELSE IF f.fn = "action" /\ r.k = "exc"
    THEN Deliver(Front(stk), tsk, r)
    ELSE IF f.fn = "action" /\ f.pc = "gaveup"
    THEN Deliver(Front(stk), tsk, [k |-> "val", v |-> Val(f.t)])
    ELSE [stk |-> [stk EXCEPT ![Len(stk)] =
                     [f EXCEPT !.pc = "body",
                               !.hs = IF r.k = "fut" THEN Append(@, r.v) ELSE @]],
          tsk |-> tsk, ret |-> "none"]

\* the caller of tryToWork goes on: ~unique_lock (lines 100, 137), then the loop head
AfterTryToWork(stk) == [Front(stk) EXCEPT ![Len(stk) - 1].pc = "while"]

\* ----------------------------------------------------- workerLoop
\* line 133: while(!stop); leaving the loop ends the thread
WL_While(self) ==
    /\ At(self, "workerLoop", "while")
    /\ stack' = IF stop THEN [stack EXCEPT ![self] = <<>>] ELSE Goto(self, "lock")
    /\ UNCHANGED <<stop, taskQueue, mtx, cvWaiters, RecursionMap, threadNumber,
                   maxRecursion, tasks, nTasks, ret, crashed, atStop, coRes>>

\* lines 135-136 and 108-109: std::unique_lock lock(mtx); tryToWork(lock), which
\* returns at once when it reads stop set (the lock is released at line 137)
WL_Lock(self) ==
    /\ At(self, "workerLoop", "lock")
    /\ mtx = NoThread
    /\ IF stop
       THEN /\ stack' = Goto(self, "while")
            /\ mtx' = mtx
       ELSE /\ stack' = [stack EXCEPT ![self] = Call(self, "lock", Frame("tryToWork", "empty", 0))]
            /\ mtx' = self
    /\ UNCHANGED <<stop, taskQueue, cvWaiters, RecursionMap, threadNumber,
                   maxRecursion, tasks, nTasks, ret, crashed, atStop, coRes>>

\* ------------------------------------------------------ tryToWork
\* lines 108-109: if(stop) return, in a call made by waitForTask
TW_Stop(self) ==
    /\ At(self, "tryToWork", "stop")
    /\ IF stop
       THEN /\ stack' = [stack EXCEPT ![self] = AfterTryToWork(@)]
            /\ mtx' = NoThread
       ELSE /\ stack' = Goto(self, "empty")
            /\ mtx' = mtx
    /\ UNCHANGED <<stop, taskQueue, cvWaiters, RecursionMap, threadNumber,
                   maxRecursion, tasks, nTasks, ret, crashed, atStop, coRes>>

\* lines 111-113: the queue is empty: cv.wait(lock) releases the mutex and blocks
TW_Wait(self) ==
    /\ At(self, "tryToWork", "empty")
    /\ taskQueue = {}
    /\ mtx' = NoThread
    /\ cvWaiters' = cvWaiters \cup {self}
    /\ stack' = Goto(self, "waiting")
    /\ UNCHANGED <<stop, taskQueue, RecursionMap, threadNumber, maxRecursion,
                   tasks, nTasks, ret, crashed, atStop, coRes>>

\* lines 113-114: a notified waiter takes the mutex again and returns to its
\* caller, whose lock releases it
TW_Wake(self) ==
    /\ At(self, "tryToWork", "waiting")
    /\ self \notin cvWaiters
    /\ mtx = NoThread
    /\ stack' = [stack EXCEPT ![self] = AfterTryToWork(@)]
    /\ UNCHANGED <<stop, taskQueue, mtx, cvWaiters, RecursionMap, threadNumber,
                   maxRecursion, tasks, nTasks, ret, crashed, atStop, coRes>>

\* mutant of Pop: the entry taken stays in the store
PopKeeps(q, t) == q

\* line 119: taskQueue.pop()
Pop(q, t) == q \ {t}

\* mutant of Unlocked: lock.unlock() is left out
UnlockedNot(self) == self

\* line 120: lock.unlock(): who holds the mutex afterwards
Unlocked(self) == NoThread

\* lines 118-120: task = top().second; pop(); lock.unlock()
TW_Pop(self) ==
    /\ At(self, "tryToWork", "empty")
    /\ taskQueue # {}
    /\ \E t \in TopEntries(taskQueue) :
        /\ taskQueue' = Pop(taskQueue, t)
        /\ tasks' = [tasks EXCEPT ![t].st = "popped"]
        /\ stack' = SetTop(self, [Top(self) EXCEPT !.pc = "call", !.t = t])
    /\ mtx' = Unlocked(self)
    /\ UNCHANGED <<stop, cvWaiters, RecursionMap, threadNumber, maxRecursion,
                   nTasks, ret, crashed, atStop, coRes>>

\* lines 122-123 (and 64): RecursionMap[id]++; task() invokes (*pFunc)() through
\* the captured reference.  While the addTask call that owns pFunc has not
\* returned this runs the packaged task; afterwards the reference dangles and the
\* call is undefined: the process is terminated, or the action runs from the
\* stale object.
TW_Call(self) ==
    /\ At(self, "tryToWork", "call")
    /\ LET t == Top(self).t IN
        \/ /\ RecursionMap' = [RecursionMap EXCEPT ![self] = @ + 1]
           /\ tasks' = [tasks EXCEPT ![t].st = "running"]
           /\ stack' = [stack EXCEPT ![self] = Call(self, "store", Frame("action", "body", t))]
           /\ crashed' = crashed
        \/ /\ ~tasks[t].pFunc
           /\ crashed' = TRUE
           /\ UNCHANGED <<RecursionMap, tasks, stack>>
    /\ UNCHANGED <<stop, taskQueue, mtx, cvWaiters, threadNumber, maxRecursion,
                   nTasks, ret, atStop, coRes>>

\* how the action that self just ran ended
Outcome(self) == IF ret[self] = "exc" THEN "raised" ELSE "returned"

\* line 123: packaged_task::operator() stores the action's outcome in the shared
\* state.  With pFunc destroyed meanwhile the store is undefined: the outcome is
\* lost or the process is terminated.
TW_Store(self) ==
    /\ At(self, "tryToWork", "store")
    /\ LET t == Top(self).t IN
        \/ /\ tasks[t].pFunc
           /\ tasks' = [tasks EXCEPT ![t].st = Outcome(self),
                          ![t].fut = IF ret[self] = "exc" THEN "exception" ELSE "value"]
           /\ stack' = Goto(self, "notify")
           /\ ret' = [ret EXCEPT ![self] = "none"]
           /\ crashed' = crashed
        \/ /\ ~tasks[t].pFunc
           /\ tasks' = [tasks EXCEPT ![t].st = Outcome(self)]
           /\ stack' = Goto(self, "notify")
           /\ ret' = [ret EXCEPT ![self] = "none"]
           /\ crashed' = crashed
        \/ /\ ~tasks[t].pFunc
           /\ crashed' = TRUE
           /\ UNCHANGED <<tasks, stack, ret>>
    /\ UNCHANGED <<stop, taskQueue, mtx, cvWaiters, RecursionMap, threadNumber,
                   maxRecursion, nTasks, atStop, coRes>>

\* mutant of Decremented: an action that raised a failure passes line 124 by
DecrementedUnlessRaised(self, n) ==
    IF tasks[Top(self).t].st = "raised" THEN n ELSE n - 1

\* line 124: RecursionMap[id]--
Decremented(self, n) == n - 1

\* lines 124-128: RecursionMap[id]--; lock_guard notifyLock(mtx); cv.notify_all()
TW_Notify(self) ==
    /\ At(self, "tryToWork", "notify")
    /\ mtx = NoThread
    /\ RecursionMap' = [RecursionMap EXCEPT ![self] = Decremented(self, @)]
    /\ cvWaiters' = {}
    /\ stack' = [stack EXCEPT ![self] = AfterTryToWork(@)]
    /\ UNCHANGED <<stop, taskQueue, mtx, threadNumber, maxRecursion, tasks,
                   nTasks, ret, crashed, atStop, coRes>>

\* -------------------------------------------------------- addTask
\* the arguments of the addTask(priority, f) call that gets id t
NewTask(p) == [NoTask EXCEPT !.priority = p, !.st = "called"]

\* mutant of StopSeen: addTask does not look at the stop flag
StopSeenNever == FALSE

\* line 55: if(stop)
StopSeen == stop

\* mutant of NotTooDeep: the bound is compared with <=
NotTooDeepOffByOne(self) == RecursionMap[self] <= maxRecursion

\* line 58: RecursionMap[id] < maxRecursion
NotTooDeep(self) == RecursionMap[self] < maxRecursion

\* the main thread, or an action, between two calls of the pool
InClient(self) ==
    \/ At(self, "main", "body")
    \/ At(self, "action", "body")

\* lines 51-66 and 74-79: addTask(p, f) is called.  A stopped pool returns an
\* empty future (line 56).  Below the recursion bound the packaged task, its
\* wrapper and its future are made (lines 60-66); at the bound f is called in
\* place (lines 79, 84).
AT_Call(self) ==
    /\ InClient(self)
    /\ nTasks < MaxTasks
    /\ \E p \in Prios :
        LET t == nTasks + 1
            called == [tasks EXCEPT ![t] = NewTask(p)]
            caller == Goto(self, "added")[self]
        IN  IF StopSeen
            THEN LET d == Deliver(caller, [called EXCEPT ![t].st = "rejected"],
                                  [k |-> "empty", v |-> t])
                 IN  /\ stack' = [stack EXCEPT ![self] = d.stk]
                     /\ tasks' = d.tsk
            ELSE IF NotTooDeep(self)
            THEN /\ tasks' = [called EXCEPT ![t].pFunc = TRUE, ![t].fut = "pending"]
                 /\ stack' = [stack EXCEPT ![self] = Append(caller, Frame("addTask", "enqueue", t))]
            ELSE /\ tasks' = [called EXCEPT ![t].inl = TRUE, ![t].st = "running"]
                 /\ stack' = [stack EXCEPT ![self] =
                                caller \o <<Frame("addTask", "promise", t),
                                            Frame("action", "body", t)>>]
    /\ nTasks' = nTasks + 1
    /\ UNCHANGED <<stop, taskQueue, mtx, cvWaiters, RecursionMap, threadNumber,
                   maxRecursion, ret, crashed, atStop, coRes>>

\* lines 67-71: lock_guard lock(mtx); taskQueue.emplace(priority, func); cv.notify_all()
AT_Enqueue(self) ==
    /\ At(self, "addTask", "enqueue")
    /\ mtx = NoThread
    /\ LET t == Top(self).t IN
        /\ taskQueue' = taskQueue \cup {t}
        /\ tasks' = [tasks EXCEPT ![t].st = "queued"]
        /\ coRes' = coRes \cup {<<t, u>> : u \in taskQueue} \cup {<<u, t>> : u \in taskQueue}
    /\ cvWaiters' = {}
    /\ stack' = Goto(self, "return")
    /\ UNCHANGED <<stop, mtx, RecursionMap, threadNumber, maxRecursion, nTasks,
                   ret, crashed, atStop>>

\* line 72: return result; the locals func and pFunc are destroyed, and with
\* pFunc, its only owner, the packaged task: a shared state not yet made ready
\* is made ready with broken_promise
AT_Return(self) ==
    /\ At(self, "addTask", "return")
    /\ LET t == Top(self).t
           d == Deliver(Front(stack[self]),
                        [tasks EXCEPT ![t].pFunc = FALSE,
                                      ![t].fut = IF @ = "pending" THEN "broken" ELSE @],
                        [k |-> "fut", v |-> t])
       IN  /\ stack' = [stack EXCEPT ![self] = d.stk]
           /\ tasks' = d.tsk
    /\ UNCHANGED <<stop, taskQueue, mtx, cvWaiters, RecursionMap, threadNumber,
                   maxRecursion, nTasks, ret, crashed, atStop, coRes>>

\* ---------------------------------------------------- waitForTask
\* line 93: while(!stop), and line 101: return static_cast<T>(NULL), for the
\* thread whose stack stk has the waitForTask frame on top
WhileHead(stk) ==
    IF stop
    THEN Deliver(Front(stk), tasks, [k |-> "sentinel", v |-> Sentinel])
    ELSE [stk |-> [stk EXCEPT ![Len(stk)].pc = "lock"], tsk |-> tasks, ret |-> "none"]

\* waitForTask(fut) is called on the oldest future the caller still holds
\* (line 93 is read for the first time)
WT_Call(self) ==
    /\ InClient(self)
    /\ Top(self).hs # <<>>
    /\ LET d == WhileHead(Append(SetTop(self, [Top(self) EXCEPT !.pc = "awaited", !.hs = Tail(@)])[self],
                                 Frame("waitForTask", "while", Head(Top(self).hs))))
       IN  /\ stack' = [stack EXCEPT ![self] = d.stk]
           /\ tasks' = d.tsk
           /\ ret' = [ret EXCEPT ![self] = d.ret]
    /\ UNCHANGED <<stop, taskQueue, mtx, cvWaiters, RecursionMap, threadNumber,
                   maxRecursion, nTasks, crashed, atStop, coRes>>

\* line 93 after a pass through the loop body
WT_While(self) ==
    /\ At(self, "waitForTask", "while")
    /\ LET d == WhileHead(stack[self])
       IN  /\ stack' = [stack EXCEPT ![self] = d.stk]
           /\ tasks' = d.tsk
           /\ ret' = [ret EXCEPT ![self] = d.ret]
    /\ UNCHANGED <<stop, taskQueue, mtx, cvWaiters, RecursionMap, threadNumber,
                   maxRecursion, nTasks, crashed, atStop, coRes>>

\* lines 95-99: unique_lock lock(mtx); a ready future is returned through get()
\* (the lock is released on the way out); otherwise tryToWork(lock)
WT_Lock(self) ==
    /\ At(self, "waitForTask", "lock")
    /\ mtx = NoThread
    /\ LET h == Top(self).t IN
        IF Ready(h)
        THEN LET d == Deliver(Front(stack[self]), tasks, Get(h))
             IN  /\ stack' = [stack EXCEPT ![self] = d.stk]
                 /\ tasks' = d.tsk
                 /\ ret' = [ret EXCEPT ![self] = d.ret]
                 /\ mtx' = mtx
        ELSE /\ stack' = [stack EXCEPT ![self] = Call(self, "lock", Frame("tryToWork", "stop", 0))]
             /\ mtx' = self
             /\ UNCHANGED <<tasks, ret>>
    /\ UNCHANGED <<stop, taskQueue, cvWaiters, RecursionMap, threadNumber,
                   maxRecursion, nTasks, crashed, atStop, coRes>>

\* -------------------------------------------------------- actions
\* What an action f does is chosen as it runs: it may submit sub-tasks and await
\* their futures (AT_Call, WT_Call), await a future nobody completes, and, when
\* it holds no future any more, return its value Val(t) or raise a failure.

\* f returns a value
A_Return(self) ==
    /\ At(self, "action", "body")
    /\ Top(self).hs = <<>>
    /\ LET d == Deliver(Front(stack[self]), tasks, [k |-> "val", v |-> Val(Top(self).t)])
       IN  /\ stack' = [stack EXCEPT ![self] = d.stk]
           /\ tasks' = d.tsk
           /\ ret' = [ret EXCEPT ![self] = d.ret]
    /\ UNCHANGED <<stop, taskQueue, mtx, cvWaiters, RecursionMap, threadNumber,
                   maxRecursion, nTasks, crashed, atStop, coRes>>

\* f raises a failure
A_Raise(self) ==
    /\ At(self, "action", "body")
    /\ Top(self).hs = <<>>
    /\ LET d == Deliver(Front(stack[self]), tasks, [k |-> "exc", v |-> Top(self).t])
       IN  /\ stack' = [stack EXCEPT ![self] = d.stk]
           /\ tasks' = d.tsk
           /\ ret' = [ret EXCEPT ![self] = d.ret]
    /\ UNCHANGED <<stop, taskQueue, mtx, cvWaiters, RecursionMap, threadNumber,
                   maxRecursion, nTasks, crashed, atStop, coRes>>

\* f calls waitForTask on a future that nobody completes, and returns after it
A_Never(self) ==
    /\ At(self, "action", "body")
    /\ Top(self).hs = <<>>
    /\ LET d == WhileHead(Call(self, "gaveup", Frame("waitForTask", "while", NeverFut)))
       IN  /\ stack' = [stack EXCEPT ![self] = d.stk]
           /\ tasks' = d.tsk
           /\ ret' = [ret EXCEPT ![self] = d.ret]
    /\ UNCHANGED <<stop, taskQueue, mtx, cvWaiters, RecursionMap, threadNumber,
                   maxRecursion, nTasks, crashed, atStop, coRes>>

\* ----------------------------------------------------- ~ThreadPool
\* line 34: stop = true, written without the mutex
D_Stop(self) ==
    /\ At(self, "main", "body")
    /\ stop' = TRUE
    /\ atStop' = taskQueue
    /\ stack' = Goto(self, "notify")
    /\ UNCHANGED <<taskQueue, mtx, cvWaiters, RecursionMap, threadNumber,
                   maxRecursion, tasks, nTasks, ret, crashed, coRes>>

\* line 35: cv.notify_all(), called without the mutex
D_Notify(self) ==
    /\ At(self, "main", "notify")
    /\ cvWaiters' = {}
    /\ stack' = SetTop(self, [Top(self) EXCEPT !.pc = "join", !.t = 1])
    /\ UNCHANGED <<stop, taskQueue, mtx, RecursionMap, threadNumber, maxRecursion,
                   tasks, nTasks, ret, crashed, atStop, coRes>>

\* lines 37-40: workers.at(i).join() for each worker in turn
D_Join(self) ==
    /\ At(self, "main", "join")
    /\ LET i == Top(self).t IN
        /\ stack[i] = <<>>
        /\ stack' = SetTop(self, [Top(self) EXCEPT !.t = i + 1,
                                    !.pc = IF i = threadNumber THEN "done" ELSE "join"])
    /\ UNCHANGED <<stop, taskQueue, mtx, cvWaiters, RecursionMap, threadNumber,
                   maxRecursion, tasks, nTasks, ret, crashed, atStop, coRes>>

\* ------------------------------------------------------------ Next
Step(self) ==
    \/ WL_While(self) \/ WL_Lock(self)
    \/ TW_Stop(self) \/ TW_Wait(self) \/ TW_Wake(self) \/ TW_Pop(self)
    \/ TW_Call(self) \/ TW_Store(self) \/ TW_Notify(self)
    \/ AT_Call(self) \/ AT_Enqueue(self) \/ AT_Return(self)
    \/ WT_Call(self) \/ WT_While(self) \/ WT_Lock(self)
    \/ A_Return(self) \/ A_Raise(self) \/ A_Never(self)
    \/ D_Stop(self) \/ D_Notify(self) \/ D_Join(self)

Next == \E self \in Threads : Step(self)

Spec == Init /\ [][Next]_vars

\* Fair scheduling: a thread that can take a step again and again takes one,
\* except that the main thread, between two calls, may stay away from the pool
\* for ever (it need not submit, await or destroy).
FairStep(self) == ~At(self, "main", "body") /\ Step(self)
FairSpec == Spec /\ \A self \in Threads : SF_vars(FairStep(self))

\* ============================================================ claims
Frames(self) == {stack[self][i] : i \in 1..Depth(self)}
Dequeued(t) == ~tasks[t].inl /\ tasks[t].st \in {"popped", "running", "returned", "raised"}
Started(t) == tasks[t].st \in {"running", "returned", "raised"}
\* thread self holds the future of t, or is inside waitForTask on it
HoldsFuture(self, t) ==
    \E f \in Frames(self) :
        \/ f.fn \in {"main", "action"} /\ \E i \in 1..Len(f.hs) : f.hs[i] = t
        \/ f.fn = "waitForTask" /\ f.t = t
\* the action of t is running on self, called from the addTask call for t
RunsInline(self, t) ==
    \E i \in 1..(Depth(self) - 1) :
        /\ stack[self][i] = Frame("addTask", "promise", t)
        /\ stack[self][i + 1].fn = "action"
        /\ stack[self][i + 1].t = t
\* the step is the addTask call that gets id t, made by self
CallsAddTask(self, t) ==
    /\ tasks[t].st = "none"
    /\ tasks'[t].st # "none"
    /\ stack'[self] # stack[self]

\* C1: every removal from the task store takes an entry whose priority is at
\* least the priority of every entry resident at that moment
C1_DequeueHighest ==
    [][\A t \in taskQueue : t \notin taskQueue' =>
          \A u \in taskQueue : tasks[u].priority <= tasks[t].priority]_vars

\* C1 witness: an entry has been removed while an entry of strictly lower
\* priority, resident together with it, is still in the store
C1_Witness ==
    \E t, u \in TaskIds :
        /\ Dequeued(t)
        /\ u \in taskQueue
        /\ <<t, u>> \in coRes
        /\ tasks[u].priority < tasks[t].priority

\* C2: an addTask call by a thread whose recursion counter has reached
\* maxRecursion, on a pool not stopped, runs the action on the calling thread
\* inside the call and adds no entry to the store; a task run that way is never
\* in the store, and whoever holds its future holds a completed one
C2_InlineAtBound ==
    [][/\ \A self \in Threads, t \in TaskIds :
            (CallsAddTask(self, t) /\ ~stop /\ RecursionMap[self] >= maxRecursion) =>
                /\ tasks'[t].inl
                /\ taskQueue' = taskQueue
                /\ RunsInline(self, t)'
       /\ \A t \in TaskIds : tasks'[t].inl =>
            /\ t \notin taskQueue'
            /\ ~tasks'[t].pFunc
            /\ tasks'[t].st = "running" => \E self \in Threads : RunsInline(self, t)'
            /\ \A self \in Threads : HoldsFuture(self, t)' =>
                  tasks'[t].st = "returned" /\ tasks'[t].fut = "value"]_vars

\* C2 witness: a thread at the bound called addTask, the action ran in the call
\* and the caller holds the completed future
C2_Witness ==
    \E self \in Threads, t \in TaskIds :
        /\ tasks[t].inl
        /\ tasks[t].st = "returned"
        /\ HoldsFuture(self, t)
        /\ RecursionMap[self] >= maxRecursion

\* C9: an addTask call that reads the stop flag set adds no entry to the store,
\* runs no action, changes no recursion counter and hands back an empty future;
\* nothing happens to that call's task afterwards
C9_StoppedAddTask ==
    [][\A t \in TaskIds :
          /\ (\E self \in Threads : CallsAddTask(self, t) /\ stop) =>
                /\ tasks'[t].st = "rejected"
                /\ UNCHANGED <<taskQueue, RecursionMap>>
          /\ tasks'[t].st = "rejected" =>
                /\ tasks'[t].fut = "none"
                /\ ~tasks'[t].inl /\ ~tasks'[t].pFunc
                /\ t \notin taskQueue'
                /\ \A self \in Threads :
                      /\ ~HoldsFuture(self, t)'
                      /\ \A f \in Frames(self)' : f.fn \in {"addTask", "action"} => f.t # t]_vars

\* C9 witness: addTask was called on a stopped pool
C9_Witness == \E t \in TaskIds : tasks[t].st = "rejected"

\* C4 (as claimed): when the action of a task taken from the store raises a
\* failure, the failure is stored in that task's future
C4_FailureCaptured ==
    \A t \in TaskIds :
        (~tasks[t].inl /\ tasks[t].st = "raised") => tasks[t].fut = "exception"

\* C5 (as claimed): no task resident in the store when the destructor sets the
\* stop flag is executed afterwards
C5_NoRunAfterStop == \A t \in atStop : ~Started(t)

\* C7 (as claimed): a waitForTask(fut) call that returns while the stop flag is
\* unset hands back what the action of fut's task produced: its value, or the
\* failure that action raised
C7_WaitReturnsOutcome ==
    [][\A self \in Threads :
          (/\ Depth(self) > 0
           /\ Top(self).fn = "waitForTask"
           /\ Len(stack'[self]) < Len(stack[self])
           /\ ~stop') =>
             LET h == Top(self).t IN
                /\ h # NeverFut
                /\ \/ tasks[h].fut = "value" /\ tasks[h].st = "returned"
                   \/ tasks[h].fut = "exception" /\ tasks[h].st = "raised"]_vars

\* C8 (as claimed): of two tasks resident together, the one with the lower
\* priority does not begin to run before the one with the higher priority
C8_StartOrder ==
    \A pr \in coRes :
        (tasks[pr[1]].priority > tasks[pr[2]].priority /\ Started(pr[2])) => Started(pr[1])

\* C8 (amended): of two tasks resident together, the one with the lower priority
\* is not removed from the store before the one with the higher priority
C8_DequeueOrder ==
    \A pr \in coRes :
        (tasks[pr[1]].priority > tasks[pr[2]].priority /\ Dequeued(pr[2])) => Dequeued(pr[1])

\* C8 witness: two tasks of different priorities were resident together and
\* both have been removed, the lower one by another thread than the higher one
C8_Witness ==
    \E pr \in coRes :
        /\ tasks[pr[1]].priority > tasks[pr[2]].priority
        /\ Dequeued(pr[1]) /\ Dequeued(pr[2])
        /\ \E a, b \in Threads :
              /\ a # b
              /\ \E f \in Frames(a) : f.fn = "tryToWork" /\ f.t = pr[1]
              /\ \E f \in Frames(b) : f.fn = "tryToWork" /\ f.t = pr[2]

\* thread self is inside waitForTask on the future that is never completed
AwaitsNever(self) == \E f \in Frames(self) : f.fn = "waitForTask" /\ f.t = NeverFut
Destroyed == Top(Main).fn = "main" /\ Top(Main).pc = "done"

\* C3 (as claimed): with one worker and no stop, a task taken from the store,
\* whose action submits sub-tasks and awaits them, eventually completes (no
\* action being one that awaits a future nobody completes)
C3_TaskCompletes ==
    \A t \in TaskIds :
        [](threadNumber = 1 /\ Dequeued(t) =>
             <>(\/ tasks[t].st \in {"returned", "raised"}
                \/ stop
                \/ \E self \in Threads : AwaitsNever(self)))

\* C6 (as claimed): once the destructor has set the stop flag, every worker
\* leaves workerLoop and every join returns (stated for a pool that never got a
\* task, so that no action is running)
C6_DestructorReturns == [](stop /\ nTasks = 0 => <>Destroyed)

\* C10 (as claimed): a thread inside waitForTask on a future that never
\* completes leaves waitForTask once the pool is stopped (unless the process has
\* been terminated)
C10_WaiterLeaves ==
    \A self \in Threads :
        [](stop /\ AwaitsNever(self) => <>(~AwaitsNever(self) \/ crashed))

\* thread self is blocked in cv.wait (line 113)
InCvWait(self) ==
    /\ Depth(self) > 0
    /\ Top(self).fn = "tryToWork"
    /\ Top(self).pc = "waiting"
\* thread self is inside an addTask call
InAddTask(self) == \E f \in Frames(self) : f.fn = "addTask"

\* C11 (as claimed): no thread waits on the condition variable while it is
\* inside an addTask call, whatever the submitted action does
C11_AddTaskNeverWaits == \A self \in Threads : ~(InAddTask(self) /\ InCvWait(self))

\* how far a task has come
Rank(st) ==
    CASE st = "none" -> 0
      [] st = "called" -> 1
      [] st = "queued" -> 2
      [] st = "popped" -> 3
      [] st = "running" -> 4
      [] OTHER -> 5
\* the tryToWork calls that have taken entry t, as <<thread, place in its stack>>
Takers(t) ==
    {c \in Threads \X (1..(2 * MaxTasks + 2)) :
        /\ c[2] <= Depth(c[1])
        /\ stack[c[1]][c[2]].fn = "tryToWork"
        /\ stack[c[1]][c[2]].t = t}
\* the calls of the action of t that are under way
Runs(t) ==
    {c \in Threads \X (1..(2 * MaxTasks + 2)) :
        /\ c[2] <= Depth(c[1])
        /\ stack[c[1]][c[2]].fn = "action"
        /\ stack[c[1]][c[2]].t = t}

\* C12: an entry resident in the store has not begun to run; an entry leaves the
\* store in the step of exactly one tryToWork call and never comes back; an
\* action begins at most once, after its entry was taken (or inside addTask),
\* and at no time do two calls hold the same entry or run the same action
C12_AtMostOnce ==
    [][\A t \in TaskIds :
          /\ t \in taskQueue' => tasks'[t].st = "queued"
          /\ (t \in taskQueue /\ t \notin taskQueue') =>
                /\ Takers(t) = {}
                /\ Cardinality(Takers(t)') = 1
                /\ tasks'[t].st = "popped"
          /\ (t \notin taskQueue /\ t \in taskQueue') => tasks[t].st = "called"
          /\ Rank(tasks'[t].st) >= Rank(tasks[t].st)
          /\ (tasks'[t].st = "running" /\ tasks[t].st # "running") =>
                \/ tasks[t].st = "popped" /\ Cardinality(Takers(t)) = 1
                \/ tasks[t].st = "none" /\ tasks'[t].inl
          /\ Cardinality(Takers(t)') <= 1
          /\ Cardinality(Runs(t)') <= 1]_vars

\* C12 witness: two entries were taken by two tryToWork calls, one made by
\* workerLoop and one by a waitForTask call that helps; the action of the
\* second has run while the action of the first is under way
C12_Witness ==
    \E self \in Threads, t, u \in TaskIds :
        /\ t # u
        /\ ~tasks[t].inl /\ ~tasks[u].inl
        /\ tasks[u].st = "running"
        /\ Cardinality(Takers(u)) = 1 /\ Cardinality(Runs(u)) = 1
        /\ \E f \in Frames(self) : f.fn = "waitForTask"
        /\ Top(self) = Frame("tryToWork", "notify", t)
        /\ tasks[t].st \in {"returned", "raised"}

\* thread self is executing a task's action: it is in the code of f, or in
\* task() on the way into or out of f (line 123), or in addTask's call of f
\* (line 84)
Executing(self) ==
    /\ Depth(self) > 0
    /\ \/ Top(self).fn = "action"
       \/ Top(self).fn = "tryToWork" /\ Top(self).pc \in {"call", "store"}
       \/ Top(self).fn = "addTask" /\ Top(self).pc = "promise"

\* C13: a thread that is executing a task's action does not hold the store
\* mutex
C13_NoLockInAction == \A self \in Threads : Executing(self) => mtx # self

\* C13 witness: a thread that waits in waitForTask has taken an entry and is
\* executing its action, nested in the action it was executing before, while
\* another thread holds the mutex
C13_Witness ==
    \E self \in Threads :
        /\ Depth(self) > 0
        /\ Top(self).fn = "action"
        /\ \E f \in Frames(self) : f.fn = "waitForTask"
        /\ \E f \in Frames(self) : f.fn = "action" /\ f.t # Top(self).t
        /\ mtx \in Threads \ {self}

\* thread self is inside waitForTask on the future of task h
WaitsOn(self, h) == \E f \in Frames(self) : f.fn = "waitForTask" /\ f.t = h
\* what C14 leaves aside: a stopped pool, and an action that does not end
\* because it awaits a future nobody completes
Aside == stop \/ \E self \in Threads : AwaitsNever(self)

\* C14 (as claimed): while the pool is not stopped and every action ends, every
\* entry in the store is eventually taken and its action executed, and every
\* thread inside waitForTask on a completed future eventually leaves it
C14_NoMissedWakeup ==
    /\ \A t \in TaskIds :
          [](t \in taskQueue => <>(tasks[t].st \in {"returned", "raised"} \/ Aside))
    /\ \A self \in Threads, h \in TaskIds :
          [](WaitsOn(self, h) /\ Ready(h) => <>(~WaitsOn(self, h) \/ Aside))

\* the step reads or writes self's entry of RecursionMap: the depth test of an
\* addTask call on a pool not stopped (line 58), the increment (line 122) or
\* the decrement (line 124)
TouchesMap(self) ==
    \/ RecursionMap'[self] # RecursionMap[self]
    \/ \E t \in TaskIds : CallsAddTask(self, t) /\ ~stop

\* C15 (as claimed): a thread reads or writes RecursionMap only while it holds
\* the store mutex
C15_MapUnderLock == [][\A self \in Threads : TouchesMap(self) => mtx = self]_vars

\* C16 (as claimed): when an action called in place by addTask (the
\* depth-exceeded path) raises a failure, the failure is stored in the future
\* of that task
C16_InlineFailureCaptured ==
    \A t \in TaskIds :
        (tasks[t].inl /\ tasks[t].st = "raised") => tasks[t].fut = "exception"

\* the step is self's call waitForTask(fut) on the future of task h
CallsWaitForTask(self, h) ==
    /\ Depth(self) > 0
    /\ Top(self).fn \in {"main", "action"}
    /\ Top(self).pc = "body"
    /\ Top(self).hs # <<>>
    /\ Head(Top(self).hs) = h
    /\ Len(stack'[self]) >= Depth(self)
    /\ stack'[self][Depth(self)].hs = Tail(Top(self).hs)

\* C17 (as claimed): a waitForTask call on a future that is already complete
\* comes to the test of the future (line 96) and returns through fut.get()
\* (line 97), taking nothing from the store; it does not leave at the loop head
\* (lines 93, 101), where what is returned is static_cast<T>(NULL)
C17_ReadyReturnsValue ==
    [][\A self \in Threads, h \in TaskIds :
          /\ (CallsWaitForTask(self, h) /\ Ready(h)) =>
                stack'[self] = Append(SubSeq(stack'[self], 1, Depth(self)),
                                      Frame("waitForTask", "lock", h))
          /\ (At(self, "waitForTask", "lock") /\ Top(self).t = h /\ Ready(h)
                /\ stack'[self] # stack[self]) =>
                /\ Len(stack'[self]) < Depth(self)
                /\ taskQueue' = taskQueue]_vars

\* C18 (as claimed): no thread's recursion counter exceeds maxRecursion
C18_CounterBounded == \A self \in Threads : RecursionMap[self] <= maxRecursion

\* the tryToWork calls on self's stack that are past line 122 and have not come
\* to line 124: the entries taken from the store that self is executing
Nesting(self) ==
    Cardinality({i \in 1..Depth(self) :
                    /\ stack[self][i].fn = "tryToWork"
                    /\ stack[self][i].pc \in {"store", "notify"}})

\* C19: each thread's recursion counter is the number of entries taken from the
\* store that the thread is executing, actions called in place by addTask not
\* counted; it is 0 when the thread executes none
C19_CounterIsNesting == \A self \in Threads : RecursionMap[self] = Nesting(self)

\* C19 witness: an entry was taken and its action, which called addTask in
\* place, has raised a failure; tryToWork is over and every counter is 0 again
C19_Witness ==
    \E t, u \in TaskIds :
        /\ ~tasks[t].inl /\ tasks[t].st = "raised" /\ Takers(t) = {}
        /\ tasks[u].inl
        /\ \A self \in Threads : RecursionMap[self] = 0

\* the step is the call task() (line 123) of the wrapper of entry t: the action
\* begins to run, or the process is terminated by the call
InvokesWrapper(t) ==
    /\ tasks[t].st = "popped"
    /\ tasks'[t].st = "running" \/ crashed'

\* C20 (as claimed): whenever tryToWork invokes the wrapper of an entry, the
\* pFunc the wrapper refers to is alive: the addTask call that owns it has not
\* returned
C20_WrapperAlive == [][\A t \in TaskIds : InvokesWrapper(t) => tasks[t].pFunc]_vars

====
